---- MODULE Spec2Model ----
(***************************************************************************)
(* Model of rowlink (src/src/main.rs): the keyboard-driven grid overlay.   *)
(* The targeting session (input_buffer, zoomed_cell, visible), the surface *)
(* handle (current_id), the messages returned by update as tasks, and the  *)
(* pointer events injected by the two click handlers.                      *)
(***************************************************************************)
EXTENDS Integers, Sequences, FiniteSets, TLC

(***************************************************************************)
(* f32 arithmetic.  A non-negative f32 is [m, e] with value m * 2^e, and   *)
(* either m = 0 or 2^23 <= m < 2^24 (24-bit significand).  Every operation *)
(* rounds the exact result to nearest, ties to even, as IEEE-754 does.     *)
(***************************************************************************)
RECURSIVE Pow2(_)
Pow2(n) == IF n = 0 THEN 1 ELSE 2 * Pow2(n - 1)

F32Zero == [m |-> 0, e |-> 0]

RECURSIVE F32Round(_, _, _, _)
\* The f32 nearest to (num / den) * 2^e; sticky says that the exact value lies
\* strictly above num / den by less than one unit of num.
F32Round(num, den, e, sticky) ==
    IF num = 0 THEN F32Zero
    ELSE IF num < den * Pow2(23) THEN F32Round(2 * num, den, e - 1, sticky)
    ELSE IF num >= den * Pow2(24) THEN F32Round(num, 2 * den, e + 1, sticky)
    ELSE LET q == num \div den
             r == num % den
             up == \/ 2 * r > den
                   \/ 2 * r = den /\ (sticky \/ q % 2 = 1)
             q1 == IF up THEN q + 1 ELSE q
         IN IF q1 = Pow2(24) THEN [m |-> Pow2(23), e |-> e + 1]
            ELSE [m |-> q1, e |-> e]

\* `n as f32` and the float literals of the source (all of them small integers)
F32FromInt(n) == F32Round(n, 1, 0, FALSE)

\* a + b
F32Add(a, b) ==
    IF a.m = 0 THEN b
    ELSE IF b.m = 0 THEN a
    ELSE LET hi == IF a.e >= b.e THEN a ELSE b
             lo == IF a.e >= b.e THEN b ELSE a
             d == hi.e - lo.e
         IN IF d <= 3
            THEN F32Round(hi.m * Pow2(d) + lo.m, 1, lo.e, FALSE)
            ELSE F32Round(hi.m * 8 + (lo.m \div Pow2(d - 3)), 1, hi.e - 3,
                          lo.m % Pow2(d - 3) # 0)

\* a - b for a >= b > 0 whose exponents differ by at most 7
F32Sub(a, b) ==
    IF a.e >= b.e
    THEN F32Round(a.m * Pow2(a.e - b.e) - b.m, 1, b.e, FALSE)
    ELSE F32Round(a.m - b.m * Pow2(b.e - a.e), 1, a.e, FALSE)

\* (n as f32) * a for a small integer n
F32MulInt(n, a) == F32Round(n * a.m, 1, a.e, FALSE)

\* a / (n as f32) for a small integer n
F32DivInt(a, n) == F32Round(a.m, n, a.e, FALSE)

\* f32::round() as i32: nearest integer, ties away from zero
F32RoundToInt(a) ==
    IF a.e >= 0 THEN a.m * Pow2(a.e)
    ELSE LET p == Pow2(0 - a.e)
         IN (a.m \div p) + (IF 2 * (a.m % p) >= p THEN 1 ELSE 0)

(***************************************************************************)
(* Grid geometry: the literals of the two click handlers and of draw.      *)
(***************************************************************************)
ScreenW == 1920
ScreenH == 1080
GridDim == 26
SubCols == 8
SubRows == 3
Padding == 4
ClampOffset == 10000

None == << >>
Some(x) == x

\* screen_w / 26.0 and screen_h / 26.0
CellW == F32DivInt(F32FromInt(ScreenW), GridDim)
CellH == F32DivInt(F32FromInt(ScreenH), GridDim)

\* (cell - padding * 2.0) / 8.0 and / 3.0: the sub-cell size, as computed both
\* by ExecuteMovePrecision and by draw
SubW == F32DivInt(F32Sub(CellW, F32MulInt(2, F32FromInt(Padding))), SubCols)
SubH == F32DivInt(F32Sub(CellH, F32MulInt(2, F32FromInt(Padding))), SubRows)

\* ExecuteMovePrecision: (final_x, final_y) for the sub-cell of a main cell
PrecisionTarget(main_row, main_col, sub_row, sub_col) ==
    LET main_x == F32MulInt(main_col, CellW)
        main_y == F32MulInt(main_row, CellH)
        target_x == F32Add(F32Add(main_x, F32MulInt(sub_col, SubW)),
                           F32DivInt(SubW, 2))
        target_y == F32Add(F32Add(main_y, F32MulInt(sub_row, SubH)),
                           F32DivInt(SubH, 2))
    IN << F32RoundToInt(target_x), F32RoundToInt(target_y) >>

\* ExecuteMoveCenter: the rounded target of Some((r, c)) or of None
CenterTargetSwapped(target_cell) ==
    IF target_cell # None
    THEN << F32RoundToInt(F32Add(F32MulInt(target_cell[1], CellW),
                                 F32DivInt(CellW, 2))),
            F32RoundToInt(F32Add(F32MulInt(target_cell[2], CellH),
                                 F32DivInt(CellH, 2))) >>
    ELSE << F32RoundToInt(F32DivInt(F32FromInt(ScreenW), 2)),
            F32RoundToInt(F32DivInt(F32FromInt(ScreenH), 2)) >>

CenterTarget(target_cell) ==
    IF target_cell # None
    THEN LET r == target_cell[1]
             c == target_cell[2]
         IN << F32RoundToInt(F32Add(F32MulInt(c, CellW), F32DivInt(CellW, 2))),
               F32RoundToInt(F32Add(F32MulInt(r, CellH), F32DivInt(CellH, 2))) >>
    ELSE << F32RoundToInt(F32DivInt(F32FromInt(ScreenW), 2)),
            F32RoundToInt(F32DivInt(F32FromInt(ScreenH), 2)) >>

\* draw: the position of the label of sub-cell (r, c) of the zoomed cell, on a
\* surface of the screen's size, to the nearest pixel
LabelPosition(zoom_r, zoom_c, r, c) ==
    LET main_x == F32MulInt(zoom_c, CellW)
        main_y == F32MulInt(zoom_r, CellH)
        x == F32Add(F32Add(main_x, F32FromInt(Padding)), F32MulInt(c, SubW))
        y == F32Add(F32Add(main_y, F32FromInt(Padding)), F32MulInt(r, SubH))
    IN << F32RoundToInt(F32Add(x, F32DivInt(SubW, 2))),
          F32RoundToInt(F32Add(y, F32DivInt(SubH, 2))) >>

(***************************************************************************)
(* Keys.  Key::Character carries a one-character string.                   *)
(***************************************************************************)
Upper == << "A", "B", "C", "D", "E", "F", "G", "H", "I", "J", "K", "L", "M",
            "N", "O", "P", "Q", "R", "S", "T", "U", "V", "W", "X", "Y", "Z" >>
Lower == << "a", "b", "c", "d", "e", "f", "g", "h", "i", "j", "k", "l", "m",
            "n", "o", "p", "q", "r", "s", "t", "u", "v", "w", "x", "y", "z" >>

\* char::to_ascii_uppercase
ToAsciiUppercase(c) ==
    IF \E i \in 1..26 : Lower[i] = c
    THEN Upper[CHOOSE i \in 1..26 : Lower[i] = c]
    ELSE c

\* char::is_ascii_uppercase
IsAsciiUppercase(c) == \E i \in 1..26 : Upper[i] = c

\* chars[k] as u32 - 'A' as u32, for an upper-case letter
LetterOffset(c) == (CHOOSE i \in 1..26 : Upper[i] = c) - 1

\* the match on c.as_str() that maps a physical key to (sub_row, sub_col)
sub_coords(c) ==
    CASE c \in {"q", "Q"} -> Some(<<0, 0>>)
      [] c \in {"w", "W"} -> Some(<<0, 1>>)
      [] c \in {"e", "E"} -> Some(<<0, 2>>)
      [] c \in {"r", "R"} -> Some(<<0, 3>>)
      [] c \in {"u", "U"} -> Some(<<0, 4>>)
      [] c \in {"i", "I"} -> Some(<<0, 5>>)
      [] c \in {"o", "O"} -> Some(<<0, 6>>)
      [] c \in {"p", "P"} -> Some(<<0, 7>>)
      [] c \in {"a", "A"} -> Some(<<1, 0>>)
      [] c \in {"s", "S"} -> Some(<<1, 1>>)
      [] c \in {"d", "D"} -> Some(<<1, 2>>)
      [] c \in {"f", "F"} -> Some(<<1, 3>>)
      [] c \in {"j", "J"} -> Some(<<1, 4>>)
      [] c \in {"k", "K"} -> Some(<<1, 5>>)
      [] c \in {"l", "L"} -> Some(<<1, 6>>)
      [] c = ";" -> Some(<<1, 7>>)
      [] c \in {"z", "Z"} -> Some(<<2, 0>>)
      [] c \in {"x", "X"} -> Some(<<2, 1>>)
      [] c \in {"c", "C"} -> Some(<<2, 2>>)
      [] c \in {"v", "V"} -> Some(<<2, 3>>)
      [] c \in {"n", "N"} -> Some(<<2, 4>>)
      [] c \in {"m", "M"} -> Some(<<2, 5>>)
      [] c = "," -> Some(<<2, 6>>)
      [] c = "." -> Some(<<2, 7>>)
      [] OTHER -> None

\* draw: the label of each sub-cell
labelsUISwapped == << << "Q", "W", "E", "R", "I", "U", "O", "P" >>,
                      << "A", "S", "D", "F", "J", "K", "L", ";" >>,
                      << "Z", "X", "C", "V", "N", "M", ",", "." >> >>

labels == << << "Q", "W", "E", "R", "U", "I", "O", "P" >>,
             << "A", "S", "D", "F", "J", "K", "L", ";" >>,
             << "Z", "X", "C", "V", "N", "M", ",", "." >> >>

(***************************************************************************)
(* Bounds of the model.                                                    *)
(***************************************************************************)
\* messages in flight between update and the event loop
MaxQueue == 5
\* click messages queued in one run
MaxClicks == 2

AllLabels == {labels[r][c] : r \in 1..SubRows, c \in 1..SubCols}
AllLetters == {Upper[i] : i \in 1..26} \cup {Lower[i] : i \in 1..26}

\* The characters typed under Spec, where key presses, signals and queued
\* messages interleave freely (SpecSession types the whole keyboard).
\* While no main cell is selected: the first and the last letter, a lower-case
\* letter, and a character that is not a letter.
SelectKeys == {"A", "Z", "a", ";"}

\* While a main cell is selected: the first and the last subgrid label, a
\* lower-case mapped letter, and a letter the match does not map.
ZoomKeys == {"Q", ".", "d", "B"}

(***************************************************************************)
(* State.                                                                  *)
(***************************************************************************)
VARIABLES
    input_buffer,     \* Rowlink.input_buffer: the letters typed so far
    visible,          \* Rowlink.visible
    zoomed_cell,      \* Rowlink.zoomed_cell: None or <<row, col>>
    current_id,       \* Rowlink.current_id: None or <<id>>
    startup_pending,  \* startup_worker has not delivered Message::Startup yet
    queue,            \* messages produced by the tasks update returned, in order
    surfaces,         \* the live layer surfaces: <<id, layer>>
    pc,               \* where update stands: "loop", or a sleep of a click handler
    handling,         \* the arguments of the click message update is handling
    target,           \* its rounded target (final_x, final_y)
    emitted,          \* pointer events injected while handling the latest message
    clicks,           \* left-button clicks injected so far
    completions,      \* mapped subgrid keys and Spaces handled while visible
    crashed,          \* an unwrap() of an empty current_id panicked
    typed             \* the characters handled since an Activation Signal was
                      \* handled on an invisible overlay, while nothing else
                      \* was typed or signalled; NotTracked otherwise

vars == << input_buffer, visible, zoomed_cell, current_id,
           startup_pending, queue, surfaces, pc, handling, target, emitted,
           clicks, completions, crashed, typed >>

\* Messages handled outside update, by the layer-shell runtime
RemoveWindow(id) == [type |-> "RemoveWindow", args |-> <<id>>]
NewLayerShell(id, layer) ==
    [type |-> "NewLayerShell", args |-> <<id>>, layer |-> layer]
SetInputRegion(id) == [type |-> "SetInputRegion", args |-> <<id>>]
\* Messages handled by update
ExecuteMovePrecisionMsg(main_row, main_col, sub_row, sub_col) ==
    [type |-> "ExecuteMovePrecision",
     args |-> <<main_row, main_col, sub_row, sub_col>>]
ExecuteMoveCenterMsg(target_cell) ==
    [type |-> "ExecuteMoveCenter", args |-> target_cell]

\* Pointer events of the injection port
MoveMouseRel(x, y) == <<"move_mouse", x, y>>
ButtonLeftClick == <<"button_left_click">>

NotTracked == << "-" >>

\* main(): one Background surface without keyboard interactivity; Rowlink::default
InitialSurface == 0
Init ==
    /\ input_buffer = << >>
    /\ visible = FALSE
    /\ zoomed_cell = None
    /\ current_id = None
    /\ startup_pending = TRUE
    /\ queue = << >>
    /\ surfaces = {<<InitialSurface, "Background">>}
    /\ pc = "loop"
    /\ handling = None
    /\ target = None
    /\ emitted = << >>
    /\ clicks = 0
    /\ completions = 0
    /\ crashed = FALSE
    /\ typed = NotTracked

\* update is entered only between messages, and never after a panic
Dispatching == pc = "loop" /\ ~crashed

\* The compositor sends key presses only to a surface opened with
\* KeyboardInteractivity::OnDemand, the Overlay layer surface of SignalReceived
KeyboardFocusAnySurface == surfaces # {}

KeyboardFocus == \E s \in surfaces : s[2] = "Overlay"

\* IcedId::unique(): an id equal to none held anywhere.  Ids are only compared,
\* so the model takes the least id that neither the state, nor a live surface,
\* nor a message in flight holds, nor the caller has just drawn (taken).
HeldIds ==
    {s[1] : s \in surfaces}
      \cup (IF current_id = None THEN {} ELSE {current_id[1]})
      \cup {queue[i].args[1] :
               i \in {j \in 1..Len(queue) :
                        queue[j].type \in {"RemoveWindow", "NewLayerShell",
                                           "SetInputRegion"}}}
UniqueId(taken) ==
    CHOOSE id \in 1..(Cardinality(HeldIds \cup taken) + 1) :
        /\ id \notin HeldIds \cup taken
        /\ \A k \in 1..(id - 1) : k \in HeldIds \cup taken

\* click messages queued so far: clicked, being clicked, or still in flight
ClicksQueued ==
    clicks + (IF pc = "loop" THEN 0 ELSE 1)
      + Cardinality({i \in 1..Len(queue) :
                       queue[i].type \in {"ExecuteMovePrecision",
                                          "ExecuteMoveCenter"}})

\* The swap to a new surface shared by Escape, Space and a mapped subgrid key:
\* layershell_open, current_id.unwrap(), current_id = Some(new_id), and the
\* batch of RemoveWindow(old_id), the click message if any, and the open task
SwapToGhostOpensOverlay(click_msgs) ==
    /\ Len(queue) + 2 + Len(click_msgs) <= MaxQueue
    /\ ClicksQueued + Len(click_msgs) <= MaxClicks
    /\ IF current_id = None
       THEN /\ crashed' = TRUE
            /\ UNCHANGED << current_id, queue >>
       ELSE LET new_id == UniqueId({})
            IN /\ current_id' = Some(<<new_id>>)
               /\ queue' = queue \o << RemoveWindow(current_id[1]) >> \o click_msgs
                                 \o << NewLayerShell(new_id, "Overlay") >>
               /\ UNCHANGED crashed

SwapToGhost(click_msgs) ==
    /\ Len(queue) + 2 + Len(click_msgs) <= MaxQueue
    /\ ClicksQueued + Len(click_msgs) <= MaxClicks
    /\ IF current_id = None
       THEN /\ crashed' = TRUE
            /\ UNCHANGED << current_id, queue >>
       ELSE LET new_id == UniqueId({})
            IN /\ current_id' = Some(<<new_id>>)
               /\ queue' = queue \o << RemoveWindow(current_id[1]) >> \o click_msgs
                                 \o << NewLayerShell(new_id, "Background") >>
               /\ UNCHANGED crashed

(***************************************************************************)
(* update: one action per message.                                         *)
(***************************************************************************)
\* Message::Startup: SetInputRegion for current_id, or for a fresh id
Startup ==
    /\ Dispatching
    /\ startup_pending
    /\ Len(queue) + 1 <= MaxQueue
    /\ startup_pending' = FALSE
    /\ queue' = Append(queue, SetInputRegion(IF current_id = None THEN UniqueId({})
                                             ELSE current_id[1]))
    /\ emitted' = << >>
    /\ UNCHANGED << input_buffer, visible, zoomed_cell, current_id, surfaces,
                    pc, target, clicks, completions, crashed, handling,
                    typed >>

\* Message::SignalReceived.  The signal is sent by another process, after
\* startup_worker has delivered its message.
SignalReceivedCancelsClicks ==
    /\ Dispatching
    /\ ~startup_pending
    /\ Len(queue) + 2 <= MaxQueue
    /\ visible' = TRUE
    /\ input_buffer' = << >>
    /\ typed' = IF visible THEN NotTracked ELSE << >>
    /\ LET new_id == UniqueId({})
           old_id == IF current_id = None THEN UniqueId({new_id})
                     ELSE current_id[1]
           kept == SelectSeq(queue,
                             LAMBDA m : m.type \notin {"ExecuteMovePrecision",
                                                       "ExecuteMoveCenter"})
       IN /\ current_id' = Some(<<new_id>>)
          /\ queue' = kept \o << RemoveWindow(old_id),
                                 NewLayerShell(new_id, "Overlay") >>
    /\ emitted' = << >>
    /\ UNCHANGED << zoomed_cell, startup_pending, surfaces, pc, target,
                    clicks, completions, crashed, handling >>

SignalReceived ==
    /\ Dispatching
    /\ ~startup_pending
    /\ Len(queue) + 2 <= MaxQueue
    /\ visible' = TRUE
    /\ input_buffer' = << >>
    /\ typed' = IF visible THEN NotTracked ELSE << >>
    /\ LET new_id == UniqueId({})
           old_id == IF current_id = None THEN UniqueId({new_id})
                     ELSE current_id[1]
       IN /\ current_id' = Some(<<new_id>>)
          /\ queue' = queue \o << RemoveWindow(old_id),
                                  NewLayerShell(new_id, "Overlay") >>
    /\ emitted' = << >>
    /\ UNCHANGED << zoomed_cell, startup_pending, surfaces, pc, target,
                    clicks, completions, crashed, handling >>

\* KeyPressed, Key::Named(Escape)
KeyEscape ==
    /\ Dispatching
    /\ KeyboardFocus
    /\ visible' = FALSE
    /\ input_buffer' = << >>
    /\ SwapToGhost(<< >>)
    /\ typed' = NotTracked
    /\ emitted' = << >>
    /\ UNCHANGED << zoomed_cell, startup_pending, surfaces, pc, target,
                    clicks, completions, handling >>

\* Key::Character with no zoomed cell: push an upper-case letter, and turn two
\* letters into the zoomed cell.  The result is <<input_buffer, zoomed_cell>>.
SelectMainCellKeepLetters(buffer, c_char) ==
    LET pushed == IF IsAsciiUppercase(c_char) THEN Append(buffer, c_char)
                  ELSE buffer
    IN IF Len(pushed) >= 2
       THEN << pushed, Some(<<LetterOffset(pushed[1]), LetterOffset(pushed[2])>>) >>
       ELSE << pushed, None >>

SelectMainCell(buffer, c_char) ==
    LET pushed == IF IsAsciiUppercase(c_char) THEN Append(buffer, c_char)
                  ELSE buffer
    IN IF Len(pushed) >= 2
       THEN << << >>, Some(<<LetterOffset(pushed[1]), LetterOffset(pushed[2])>>) >>
       ELSE << pushed, None >>

\* KeyPressed, Key::Character(c)
KeyCharacter(c) ==
    /\ Dispatching
    /\ KeyboardFocus
    /\ emitted' = << >>
    /\ typed' = IF typed # NotTracked /\ Len(typed) < 2 THEN Append(typed, c)
                ELSE NotTracked
    /\ IF zoomed_cell = None
       THEN LET r == SelectMainCell(input_buffer, ToAsciiUppercase(c))
            IN /\ input_buffer' = r[1]
               /\ zoomed_cell' = r[2]
               /\ UNCHANGED << visible, current_id, queue, completions, crashed >>
       ELSE IF sub_coords(c) # None
       THEN /\ visible' = FALSE
            /\ input_buffer' = << >>
            /\ zoomed_cell' = None
            /\ SwapToGhost(<< ExecuteMovePrecisionMsg(zoomed_cell[1], zoomed_cell[2],
                                                      sub_coords(c)[1],
                                                      sub_coords(c)[2]) >>)
            /\ completions' = IF visible THEN completions + 1 ELSE completions
       ELSE UNCHANGED << input_buffer, visible, zoomed_cell, current_id,
                         queue, completions, crashed >>
    /\ UNCHANGED << startup_pending, surfaces, pc, target, clicks, handling >>

\* KeyPressed, Key::Named(Space)
KeySpace ==
    /\ Dispatching
    /\ KeyboardFocus
    /\ visible' = FALSE
    /\ input_buffer' = << >>
    /\ zoomed_cell' = None
    /\ SwapToGhost(<< ExecuteMoveCenterMsg(zoomed_cell) >>)
    /\ completions' = IF visible THEN completions + 1 ELSE completions
    /\ emitted' = << >>
    /\ typed' = NotTracked
    /\ UNCHANGED << startup_pending, surfaces, pc, target, clicks, handling >>

\* KeyPressed with any other named key: Task::none()
KeyOtherNamedClearsBuffer ==
    /\ Dispatching
    /\ KeyboardFocus
    /\ input_buffer' = << >>
    /\ emitted' = << >>
    /\ typed' = NotTracked
    /\ UNCHANGED << visible, zoomed_cell, current_id, startup_pending, queue,
                    surfaces, pc, target, clicks, completions, crashed,
                    handling >>

KeyOtherNamed ==
    /\ Dispatching
    /\ KeyboardFocus
    /\ emitted' = << >>
    /\ typed' = NotTracked
    /\ UNCHANGED << input_buffer, visible, zoomed_cell, current_id,
                    startup_pending, queue, surfaces, pc, target, clicks,
                    completions, crashed, handling >>

\* The order of the injection calls of ExecuteMovePrecision and ExecuteMoveCenter
InjectionSequenceMoveFirst(t) ==
    << MoveMouseRel(t[1], t[2]), MoveMouseRel(0 - ClampOffset, 0 - ClampOffset),
       ButtonLeftClick >>

InjectionSequence(t) ==
    << MoveMouseRel(0 - ClampOffset, 0 - ClampOffset), MoveMouseRel(t[1], t[2]),
       ButtonLeftClick >>

HeadIs(type) == queue # << >> /\ Head(queue).type = type

\* Message::ExecuteMovePrecision, up to the first sleep
ExecuteMovePrecision ==
    /\ Dispatching
    /\ HeadIs("ExecuteMovePrecision")
    /\ LET a == Head(queue).args
           t == PrecisionTarget(a[1], a[2], a[3], a[4])
       IN /\ handling' = a
          /\ target' = t
          /\ emitted' = << InjectionSequence(t)[1] >>
    /\ queue' = Tail(queue)
    /\ pc' = "precision_sleep_5"
    /\ UNCHANGED << input_buffer, visible, zoomed_cell, current_id,
                    startup_pending, surfaces, clicks, completions, crashed,
                    typed >>

\* ... the move to the target, up to the second sleep
PrecisionMove ==
    /\ pc = "precision_sleep_5"
    /\ emitted' = Append(emitted, InjectionSequence(target)[2])
    /\ pc' = "precision_sleep_15"
    /\ UNCHANGED << input_buffer, visible, zoomed_cell, current_id,
                    startup_pending, queue, surfaces, target, clicks,
                    completions, crashed, handling, typed >>

\* ... the click, and the return of Task::none()
PrecisionClick ==
    /\ pc = "precision_sleep_15"
    /\ emitted' = Append(emitted, InjectionSequence(target)[3])
    /\ clicks' = clicks + 1
    /\ pc' = "loop"
    /\ handling' = None
    /\ target' = None
    /\ UNCHANGED << input_buffer, visible, zoomed_cell, current_id,
                    startup_pending, queue, surfaces, completions, crashed,
                    typed >>

\* Message::ExecuteMoveCenter, up to the sleep that waits for the window to vanish
ExecuteMoveCenter ==
    /\ Dispatching
    /\ HeadIs("ExecuteMoveCenter")
    /\ handling' = Head(queue).args
    /\ target' = CenterTarget(Head(queue).args)
    /\ emitted' = << >>
    /\ queue' = Tail(queue)
    /\ pc' = "center_sleep_60"
    /\ UNCHANGED << input_buffer, visible, zoomed_cell, current_id,
                    startup_pending, surfaces, clicks, completions, crashed,
                    typed >>

CenterClamp ==
    /\ pc = "center_sleep_60"
    /\ emitted' = Append(emitted, InjectionSequence(target)[1])
    /\ pc' = "center_sleep_5"
    /\ UNCHANGED << input_buffer, visible, zoomed_cell, current_id,
                    startup_pending, queue, surfaces, target, clicks,
                    completions, crashed, handling, typed >>

CenterMove ==
    /\ pc = "center_sleep_5"
    /\ emitted' = Append(emitted, InjectionSequence(target)[2])
    /\ pc' = "center_sleep_20"
    /\ UNCHANGED << input_buffer, visible, zoomed_cell, current_id,
                    startup_pending, queue, surfaces, target, clicks,
                    completions, crashed, handling, typed >>

CenterClick ==
    /\ pc = "center_sleep_20"
    /\ emitted' = Append(emitted, InjectionSequence(target)[3])
    /\ clicks' = clicks + 1
    /\ pc' = "loop"
    /\ handling' = None
    /\ target' = None
    /\ UNCHANGED << input_buffer, visible, zoomed_cell, current_id,
                    startup_pending, queue, surfaces, completions, crashed,
                    typed >>

(***************************************************************************)
(* The layer-shell runtime: the messages update leaves to it.              *)
(***************************************************************************)
HandleRemoveWindow ==
    /\ Dispatching
    /\ HeadIs("RemoveWindow")
    /\ surfaces' = {s \in surfaces : s[1] # Head(queue).args[1]}
    /\ queue' = Tail(queue)
    /\ emitted' = << >>
    /\ UNCHANGED << input_buffer, visible, zoomed_cell, current_id,
                    startup_pending, pc, target, clicks, completions,
                    crashed, handling, typed >>

HandleNewLayerShell ==
    /\ Dispatching
    /\ HeadIs("NewLayerShell")
    /\ surfaces' = surfaces \cup {<< Head(queue).args[1], Head(queue).layer >>}
    /\ queue' = Tail(queue)
    /\ emitted' = << >>
    /\ UNCHANGED << input_buffer, visible, zoomed_cell, current_id,
                    startup_pending, pc, target, clicks, completions,
                    crashed, handling, typed >>

HandleSetInputRegion ==
    /\ Dispatching
    /\ HeadIs("SetInputRegion")
    /\ queue' = Tail(queue)
    /\ emitted' = << >>
    /\ UNCHANGED << input_buffer, visible, zoomed_cell, current_id,
                    startup_pending, surfaces, pc, target, clicks,
                    completions, crashed, handling, typed >>

KeyChars == IF zoomed_cell = None THEN SelectKeys ELSE ZoomKeys

Next ==
    \/ Startup
    \/ SignalReceived
    \/ KeyEscape
    \/ \E c \in KeyChars : KeyCharacter(c)
    \/ KeySpace
    \/ KeyOtherNamed
    \/ ExecuteMovePrecision
    \/ PrecisionMove
    \/ PrecisionClick
    \/ ExecuteMoveCenter
    \/ CenterClamp
    \/ CenterMove
    \/ CenterClick
    \/ HandleRemoveWindow
    \/ HandleNewLayerShell
    \/ HandleSetInputRegion

Spec == Init /\ [][Next]_vars

\* update takes the click message at the head of the queue: the steps
\* ExecuteMovePrecision and ExecuteMoveCenter, whatever target they compute
TakeClickMessage ==
    /\ Dispatching
    /\ HeadIs("ExecuteMovePrecision") \/ HeadIs("ExecuteMoveCenter")
    /\ queue' = Tail(queue)
    /\ handling' = Head(queue).args
    /\ pc' \in {"precision_sleep_5", "center_sleep_60"}
    /\ target' \in (0..ScreenW) \X (0..ScreenH)
    /\ emitted' \in {<< >>, << MoveMouseRel(0 - ClampOffset, 0 - ClampOffset) >>}
    /\ UNCHANGED << input_buffer, visible, zoomed_cell, current_id,
                    startup_pending, surfaces, clicks, completions, crashed,
                    typed >>

\* The event loop: update and the runtime take the messages in flight one by
\* one, and a sleep of a click handler ends.  Signals and keys come from
\* outside and are under no obligation to come.
EventLoop ==
    \/ TakeClickMessage
    \/ PrecisionMove
    \/ PrecisionClick
    \/ CenterClamp
    \/ CenterMove
    \/ CenterClick
    \/ HandleRemoveWindow
    \/ HandleNewLayerShell
    \/ HandleSetInputRegion

\* The one character typed under SpecFair: a letter while a main cell is being
\* selected, and a mapped subgrid key once it is
FairKeys == {"A"}

NextFair ==
    \/ Startup
    \/ SignalReceived
    \/ KeyEscape
    \/ \E c \in FairKeys : KeyCharacter(c)
    \/ KeySpace
    \/ KeyOtherNamed
    \/ ExecuteMovePrecision
    \/ PrecisionMove
    \/ PrecisionClick
    \/ ExecuteMoveCenter
    \/ CenterClamp
    \/ CenterMove
    \/ CenterClick
    \/ HandleRemoveWindow
    \/ HandleNewLayerShell
    \/ HandleSetInputRegion

SpecFair == Init /\ [][NextFair]_vars /\ WF_vars(EventLoop)

(***************************************************************************)
(* One targeting session typed on the whole keyboard: a single Activation  *)
(* Signal once the startup message is dealt with, then keys handled while  *)
(* the overlay is visible, every letter in both cases and every subgrid    *)
(* label among them.                                                       *)
(***************************************************************************)
SessionKeys == AllLetters \cup AllLabels \cup {"1"}

NextSession ==
    \/ Startup
    \/ current_id = None /\ queue = << >> /\ SignalReceived
    \/ visible /\ KeyEscape
    \/ visible /\ \E c \in SessionKeys : KeyCharacter(c)
    \/ visible /\ KeySpace
    \/ visible /\ KeyOtherNamed
    \/ ExecuteMovePrecision
    \/ PrecisionMove
    \/ PrecisionClick
    \/ ExecuteMoveCenter
    \/ CenterClamp
    \/ CenterMove
    \/ CenterClick
    \/ HandleRemoveWindow
    \/ HandleNewLayerShell
    \/ HandleSetInputRegion

SpecSession == Init /\ [][NextSession]_vars

(***************************************************************************)
(* Phases of the targeting session, read off the fields.                   *)
(***************************************************************************)
Idle == ~visible
SelectingMainCell(n) ==
    visible /\ zoomed_cell = None /\ Len(input_buffer) = n
ZoomedOnCell(row, col) == visible /\ zoomed_cell = <<row, col>>

Cells == 0..(GridDim - 1)

\* t is the integer nearest to num / den
NearestTo(t, num, den) ==
    /\ 2 * (t * den - num) <= den
    /\ 2 * (num - t * den) <= den

\* the click messages among the messages queued by this step
NewMessages == SubSeq(queue', Len(queue) + 1, Len(queue'))
Queues(msg) == \E i \in 1..Len(NewMessages) : NewMessages[i] = msg
NoPointerEvent == emitted' = << >> /\ clicks' = clicks

\* C1: from an Idle session, an Activation Signal followed by the keys of
\* letters chr(65+row) and chr(65+col) leaves the session in
\* ZoomedOnCell(row, col) with an empty letter buffer, and neither key emits
\* a pointer move or a click.
C1_TwoLettersZoom ==
    [][\A row \in Cells, col \in Cells :
         /\ (typed = << >> /\ typed' = << Upper[row + 1] >>) => NoPointerEvent
         /\ (typed = << Upper[row + 1] >>
               /\ typed' = << Upper[row + 1], Upper[col + 1] >>)
              => /\ visible' /\ zoomed_cell' = <<row, col>>
                 /\ input_buffer' = << >>
                 /\ NoPointerEvent]_vars

\* C2: handling an Activation Signal leaves the overlay visible, the letter
\* buffer empty and no main cell selected.
C2_SignalStartsFresh ==
    [][SignalReceived
         => visible' /\ input_buffer' = << >> /\ zoomed_cell' = None]_vars

\* C3: Escape handled in an active phase leaves the session Idle with the
\* letter buffer and the selected main cell cleared, and emits no pointer
\* move and no click.
C3_EscapeCancels ==
    [][(visible /\ KeyEscape)
         => /\ ~visible' /\ input_buffer' = << >> /\ zoomed_cell' = None
            /\ NoPointerEvent
            /\ ~\E i \in 1..Len(NewMessages) :
                  NewMessages[i].type \in {"ExecuteMovePrecision",
                                           "ExecuteMoveCenter"}]_vars

\* The precision target of the specification, main_origin + padding
\* + sub_index * sub_size + sub_size / 2, as exact fractions:
\*   x = (16 col W + 64 * 26 + (2 sub_col + 1) (W - 208)) / 416
\*   y = ( 6 row H + 24 * 26 + (2 sub_row + 1) (H - 208)) / 156
IsPaddedPrecisionTarget(t, row, col, sub_row, sub_col) ==
    /\ NearestTo(t[1],
                 2 * SubCols * col * ScreenW + 2 * SubCols * Padding * GridDim
                   + (2 * sub_col + 1) * (ScreenW - 2 * Padding * GridDim),
                 2 * SubCols * GridDim)
    /\ NearestTo(t[2],
                 2 * SubRows * row * ScreenH + 2 * SubRows * Padding * GridDim
                   + (2 * sub_row + 1) * (ScreenH - 2 * Padding * GridDim),
                 2 * SubRows * GridDim)

\* C4: from ZoomedOnCell(row, col) a mapped subgrid key makes the session Idle
\* and the pointer is moved to main_origin + padding + sub_index * sub_size
\* + sub_size / 2, the point at which the overlay draws that key's label.
C4_PrecisionTarget ==
    [][/\ \A c \in AllLabels \cup AllLetters :
            (visible /\ zoomed_cell # None /\ sub_coords(c) # None
               /\ KeyCharacter(c))
              => /\ ~visible'
                 /\ Queues(ExecuteMovePrecisionMsg(zoomed_cell[1], zoomed_cell[2],
                                                   sub_coords(c)[1],
                                                   sub_coords(c)[2]))
       /\ PrecisionMove
            => \E t \in {target} :
                 /\ emitted'[Len(emitted')] = MoveMouseRel(t[1], t[2])
                 /\ IsPaddedPrecisionTarget(t, handling[1], handling[2],
                                            handling[3], handling[4])
                 /\ t = LabelPosition(handling[1], handling[2],
                                      handling[3], handling[4])]_vars

\* the centre of main cell (row, col), (2 col + 1) W / 52 and (2 row + 1) H / 52
IsCellCenter(t, row, col) ==
    /\ NearestTo(t[1], (2 * col + 1) * ScreenW, 2 * GridDim)
    /\ NearestTo(t[2], (2 * row + 1) * ScreenH, 2 * GridDim)

\* C5: Space handled in an active phase returns the session to Idle and
\* resolves the click target from the current selection: the centre of the
\* selected main cell, or exactly (screen_w / 2, screen_h / 2) = (960, 540)
\* when no cell is selected.
C5_SpaceTarget ==
    [][/\ (visible /\ KeySpace)
            => /\ ~visible' /\ input_buffer' = << >> /\ zoomed_cell' = None
               /\ Queues(ExecuteMoveCenterMsg(zoomed_cell))
       /\ CenterMove
            => \E t \in {emitted'[Len(emitted')]} :
                 /\ t[1] = "move_mouse"
                 /\ IF handling = None
                    THEN <<t[2], t[3]>> = <<960, 540>>
                    ELSE IsCellCenter(<<t[2], t[3]>>, handling[1],
                                      handling[2])]_vars

\* a Space typed on a selected main cell has moved the pointer to its centre
C5_Witness ==
    /\ pc = "center_sleep_20"
    /\ handling # None
    /\ Len(emitted) = 2
    /\ IsCellCenter(<<emitted[2][2], emitted[2][3]>>, handling[1], handling[2])

\* C6: in every click sequence the relative move by (-10000, -10000) comes
\* first, the relative move by the resolved target second and the
\* left-button click third, with no other pointer event between them.
C6_InjectionOrder ==
    /\ Len(emitted) <= 3
    /\ (pc = "loop" /\ emitted # << >>) => Len(emitted) = 3
    /\ Len(emitted) >= 1 => emitted[1] = <<"move_mouse", -10000, -10000>>
    /\ Len(emitted) >= 2
         => /\ emitted[2][1] = "move_mouse"
            /\ pc # "loop" => emitted[2] = <<"move_mouse", target[1], target[2]>>
    /\ Len(emitted) >= 3 => emitted[3] = <<"button_left_click">>

\* a second click sequence has completed
C6_Witness == pc = "loop" /\ Len(emitted) = 3 /\ clicks > 1

\* C7: the number of clicks emitted equals the number of session-completing
\* keys (a mapped subgrid key while ZoomedOnCell, Space in an active phase):
\* each such key accounts for exactly one click, emitted or still in flight.
C7_OneClickPerCompletion == ClicksQueued = completions

\* C8: Escape handled on an already-Idle session is a no-op: it changes
\* nothing and requests nothing.
C8_SecondEscapeNoOp ==
    [][(~visible /\ KeyEscape)
         => UNCHANGED << input_buffer, visible, zoomed_cell, current_id,
                         queue >>]_vars

\* C9: a main cell is selected iff the session is in phase ZoomedOnCell; in
\* particular no main cell is selected while the session is Idle.
C9_CellIffZoomed ==
    /\ zoomed_cell # None
         <=> \E row \in Cells, col \in Cells : ZoomedOnCell(row, col)
    /\ Idle => zoomed_cell = None

\* C10: after every handled message the letter buffer holds fewer than 2
\* letters.
C10_BufferBelowTwo == Len(input_buffer) < 2

\* the second letter has just been consumed into a cell selection
C10_Witness ==
    /\ typed # NotTracked
    /\ Len(typed) = 2
    /\ zoomed_cell # None
    /\ input_buffer = << >>

(***************************************************************************)
(* The overlay surfaces.                                                   *)
(***************************************************************************)
\* every open and close that update has requested has taken effect
SurfaceRequestsDone ==
    /\ pc = "loop"
    /\ \A i \in 1..Len(queue) :
         queue[i].type \notin {"RemoveWindow", "NewLayerShell"}

\* C11: once the requested opens and closes have taken effect, exactly one
\* surface is live and it is the one named by current_id, the surface the
\* program starts with included.
C11_OneLiveSurface ==
    (SurfaceRequestsDone /\ current_id # None)
      => \E layer \in {"Background", "Overlay"} :
           surfaces = {<< current_id[1], layer >>}

\* C12: every surface swap requests the opening of the new surface before
\* the closing of the old one, and at no moment is there no surface.
C12_OpenBeforeClose ==
    /\ [][\A i \in 1..Len(NewMessages), j \in 1..Len(NewMessages) :
            (NewMessages[i].type = "NewLayerShell"
               /\ NewMessages[j].type = "RemoveWindow") => i < j]_vars
    /\ [](surfaces # {})

\* the characters the match of sub_coords maps
MappedKeys == {c \in AllLabels \cup AllLetters : sub_coords(c) # None}

\* a key whose handler replaces the surface handle
SwapsHandle ==
    \/ KeyEscape
    \/ KeySpace
    \/ zoomed_cell # None /\ \E c \in MappedKeys : KeyCharacter(c)

\* C13: Escape, Space and a mapped subgrid key are never handled while
\* current_id is empty, so that reading the handle never fails.
C13_HandleNeverEmpty ==
    /\ [][SwapsHandle => current_id # None]_vars
    /\ [](~crashed)

\* a key has replaced the handle by that of a ghost surface not yet opened
C13_Witness ==
    /\ ~crashed
    /\ current_id # None
    /\ \E i \in 1..Len(queue) :
         queue[i] = NewLayerShell(current_id[1], "Background")

(***************************************************************************)
(* The click sequences and the keys around them.                           *)
(***************************************************************************)
\* C14: in every click sequence, precision and centre alike, the first
\* pointer event is emitted only after a wait for the teardown of the
\* previous surface has elapsed, its close having been requested before.
C14_WaitBeforeFirstEvent ==
    [][/\ (ExecuteMovePrecision \/ ExecuteMoveCenter)
            => /\ emitted' = << >>
               /\ \A s \in surfaces : s[2] # "Overlay" \/ s[1] = current_id[1]
       /\ (emitted' # emitted /\ Len(emitted') = 1) => pc # "loop"]_vars

\* the keys each active phase accepts, Escape and Space apart
AcceptedCharacter(c) ==
    IF zoomed_cell = None THEN IsAsciiUppercase(ToAsciiUppercase(c))
    ELSE c \in MappedKeys

\* C15: a key the current active phase does not accept (while selecting a
\* main cell, anything but a letter, Escape or Space; while zoomed, anything
\* but a mapped subgrid character, Escape or Space) changes neither the
\* letter buffer, the selected cell, the visibility nor the surface handle,
\* and emits and requests nothing.
C15_IgnoredKeyChangesNothing ==
    [][(visible /\ (KeyOtherNamed
                      \/ \E c \in SessionKeys :
                           ~AcceptedCharacter(c) /\ KeyCharacter(c)))
         => /\ UNCHANGED << input_buffer, zoomed_cell, visible, current_id,
                            queue, surfaces, clicks >>
            /\ emitted' = << >>]_vars

\* a character that is not a letter has been handled as the second key of a
\* main-cell selection, and the first letter is still the whole buffer
C15_Witness ==
    /\ visible
    /\ zoomed_cell = None
    /\ typed # NotTracked
    /\ Len(typed) = 2
    /\ ~IsAsciiUppercase(ToAsciiUppercase(typed[2]))
    /\ input_buffer = << ToAsciiUppercase(typed[1]) >>

\* C16: while a click sequence is between its first wait and its final
\* click, an Activation Signal or a key such as Escape can be handled.
C16_WaitsDoNotStall ==
    (pc # "loop" /\ ~crashed /\ ~startup_pending /\ Len(queue) + 2 <= MaxQueue)
      => /\ ENABLED SignalReceived
         /\ KeyboardFocus => ENABLED KeyEscape

\* the main cells and the click messages the keys of SpecFair can produce
FairCells ==
    {<< LetterOffset(ToAsciiUppercase(a)), LetterOffset(ToAsciiUppercase(b)) >> :
       a \in FairKeys, b \in FairKeys}
FairClickMessages ==
    {ExecuteMoveCenterMsg(z) : z \in {None} \cup FairCells}
      \cup {ExecuteMovePrecisionMsg(z[1], z[2], sub_coords(k)[1], sub_coords(k)[2]) :
              z \in FairCells, k \in FairKeys \cap MappedKeys}

InFlight(m) == \E i \in 1..Len(queue) : queue[i] = m

\* update stands in a sleep of the click sequence of m
Executing(m) ==
    /\ pc # "loop"
    /\ handling = m.args
    /\ (m.type = "ExecuteMovePrecision")
         <=> (pc \in {"precision_sleep_5", "precision_sleep_15"})

\* the target a click message resolves to
TargetOf(m) ==
    IF m.type = "ExecuteMoveCenter" THEN CenterTarget(m.args)
    ELSE PrecisionTarget(m.args[1], m.args[2], m.args[3], m.args[4])

FairTargets == [m \in FairClickMessages |-> TargetOf(m)]

\* update has just returned from the whole click sequence of m
SequenceDone(m) ==
    /\ pc = "loop"
    /\ Len(emitted) = 3
    /\ emitted = << MoveMouseRel(0 - ClampOffset, 0 - ClampOffset),
                    MoveMouseRel(FairTargets[m][1], FairTargets[m][2]),
                    ButtonLeftClick >>

\* C17: a click sequence cannot be cancelled: once the completing key is
\* handled, which queues the click message with the target resolved at that
\* time, the clamp move, the move to that target and the click all occur,
\* whatever Activation Signal or Escape is handled before the message is.
C17_ClickNotCancellable ==
    \A m \in FairClickMessages :
        (InFlight(m) \/ Executing(m)) ~> SequenceDone(m)

\* a click sequence has completed on an overlay that an Activation Signal,
\* handled after the completing key, had made visible again
C17_Witness ==
    /\ pc = "loop"
    /\ Len(emitted) = 3
    /\ visible
    /\ clicks > 0

(***************************************************************************)
(* The subgrid keys.                                                       *)
(***************************************************************************)
\* the 24 subgrid characters, row by row
SubgridOrder ==
    << "Q", "W", "E", "R", "U", "I", "O", "P",
       "A", "S", "D", "F", "J", "K", "L", ";",
       "Z", "X", "C", "V", "N", "M", ",", "." >>

\* the position of the i-th subgrid character, counted row by row
PositionOf(i) == << (i - 1) \div SubCols, (i - 1) % SubCols >>

\* sub_coords maps the 24 subgrid characters, and nothing else, one to one
\* onto the positions, row by row, and each label is drawn at its position
MappingIsLabelledBijection ==
    /\ \A c \in SessionKeys :
         IF \E i \in 1..Len(SubgridOrder) : SubgridOrder[i] = ToAsciiUppercase(c)
         THEN \E i \in 1..Len(SubgridOrder) :
                /\ SubgridOrder[i] = ToAsciiUppercase(c)
                /\ sub_coords(c) = PositionOf(i)
                /\ labels[PositionOf(i)[1] + 1][PositionOf(i)[2] + 1]
                     = ToAsciiUppercase(c)
         ELSE sub_coords(c) = None
    /\ \A c \in MappedKeys, d \in MappedKeys :
         sub_coords(c) = sub_coords(d)
           => ToAsciiUppercase(c) = ToAsciiUppercase(d)
    /\ \A r \in 0..(SubRows - 1), k \in 0..(SubCols - 1) :
         \E c \in MappedKeys : sub_coords(c) = << r, k >>

\* C18: sub_coords maps the 24 characters Q W E R U I O P / A S D F J K L ;
\* / Z X C V N M , . (letters in either case), and nothing else, one to one
\* onto the pairs (sub_row in 0..2, sub_col in 0..7), row by row in that
\* order, and the label drawn at each position is the character mapped to
\* it; a subgrid key handled while zoomed queues the click of the position
\* that carries its label.
C18_SubgridBijection ==
    [][/\ MappingIsLabelledBijection
       /\ zoomed_cell # None
            => \A c \in SessionKeys :
                 KeyCharacter(c)
                   => IF c \in MappedKeys
                      THEN \E i \in 1..Len(NewMessages) :
                             /\ NewMessages[i].type = "ExecuteMovePrecision"
                             /\ labels[NewMessages[i].args[3] + 1]
                                      [NewMessages[i].args[4] + 1]
                                  = ToAsciiUppercase(c)
                      ELSE NewMessages = << >>]_vars

\* the key of the last label has queued the click of the last position
C18_Witness ==
    \E i \in 1..Len(queue) :
      /\ queue[i].type = "ExecuteMovePrecision"
      /\ << queue[i].args[3], queue[i].args[4] >> = << SubRows - 1, SubCols - 1 >>

(***************************************************************************)
(* Visibility.                                                             *)
(***************************************************************************)
\* the layers in which the surface of an id is live or about to be opened
RequestedLayers(id) ==
    {s[2] : s \in {t \in surfaces : t[1] = id}}
      \cup {queue[i].layer :
              i \in {j \in 1..Len(queue) : /\ queue[j].type = "NewLayerShell"
                                           /\ queue[j].args[1] = id}}

\* C19: visible is true iff the surface current_id names was opened as an
\* interactive surface (Overlay layer, keyboard on demand); while visible is
\* false the current surface is a ghost (Background layer, no keyboard).
C19_VisibleIffInteractive ==
    IF current_id = None
    THEN ~visible /\ \A s \in surfaces : s[2] = "Background"
    ELSE RequestedLayers(current_id[1])
           = {IF visible THEN "Overlay" ELSE "Background"}

\* a click has been emitted and the ghost surface current_id names is live
C19_Witness ==
    /\ ~visible
    /\ clicks > 0
    /\ current_id # None
    /\ << current_id[1], "Background" >> \in surfaces

\* C20: a key handled while the session is Idle emits no pointer move and no
\* click, queues none, and changes neither the letter buffer nor the
\* selected main cell.
C20_IdleKeysInert ==
    [][(~visible /\ (\/ KeyEscape
                     \/ KeySpace
                     \/ KeyOtherNamed
                     \/ \E c \in SelectKeys \cup ZoomKeys : KeyCharacter(c)))
         => /\ NoPointerEvent
            /\ \A i \in 1..Len(NewMessages) :
                 NewMessages[i].type \notin {"ExecuteMovePrecision",
                                             "ExecuteMoveCenter"}
            /\ UNCHANGED << input_buffer, zoomed_cell >>]_vars

====
